---- MODULE Spec2Model ----
(***************************************************************************)
(* Model of scripts/nurbs_road_builder.py: build_nurbs_road and the        *)
(* RoadBuilderUI build callback, run against an abstract Maya scene graph. *)
(*                                                                         *)
(* Strings that the program splits (node identifiers) are sequences of     *)
(* chunks in which the path separator "|" is always a chunk of its own;    *)
(* node names stored in the scene are plain strings without separator.     *)
(***************************************************************************)
EXTENDS Integers, Sequences, FiniteSets, TLC

VARIABLES
    nodes,            \* the host scene graph: sequence of node records
    pc,               \* position of the program
    caller,           \* "none", "direct" (script call) or "ui" (button callback)
    main_curve,       \* argument of build_nurbs_road (identifier, chunk sequence)
    params,           \* argument of build_nurbs_road (RoadParameters)
    ip,               \* index into Steps of the statement being executed
    sub,              \* position inside the helper the statement calls
    tmp,              \* local of the running helper (offset_transform / dup)
    env,              \* locals of build_nurbs_road holding node names
    created_curves,   \* local list created_curves
    created_surfaces, \* local list created_surfaces
    result,           \* value returned by build_nurbs_road (<<>> if none)
    exc,              \* exception in flight or caught (type "" if none)
    calls,            \* log of the host calls made, in order
    selection,        \* local `selection` of _on_build_pressed
    escaped           \* TRUE once an exception left _on_build_pressed

vars == <<nodes, pc, caller, main_curve, params, ip, sub, tmp, env,
          created_curves, created_surfaces, result, exc, calls, selection,
          escaped>>

---------------------------------------------------------------------------
(* Bounds and inputs *)

MaxParam == 1

ParamValues == (0 - 1) .. MaxParam

Fields == {"road_offset", "drain_offset", "curb_offset", "curb_height",
           "sidewalk_offset", "sidewalk_curb_offset"}

Uniform(v) ==
    [road_offset |-> v, drain_offset |-> v, curb_offset |-> v,
     curb_height |-> v, sidewalk_offset |-> v, sidewalk_curb_offset |-> v]

\* RoadParameters: six numbers, no validation.  Each field is used by one
\* pair of statements only, so the values explored are those in which at
\* most one field differs from the other five.
RoadParameters ==
    {[Uniform(v) EXCEPT ![f] = w] : v \in ParamValues, w \in ParamValues,
                                   f \in Fields}

Sep == "|"

\* identifiers handed to build_nurbs_road by a script
InputIds ==
    { <<"g", Sep, "c">>, <<Sep, "g", Sep, "c">>, <<"cShape">>, <<"m">>,
      <<"e">>, <<"x">>, <<Sep, "c">> }

\* what cmds.ls(selection=True) can return when the button is pressed
Selections == { <<>>, << <<"c">>, <<"m">> >>, << <<"m">>, <<"c">> >>,
                << <<"e">> >> }

\* exception classes a failing maya.cmds call raises
HostErrorTypes == {"RuntimeError", "ValueError"}

---------------------------------------------------------------------------
(* Strings *)

RECURSIVE Str(_)
\* the text of a chunk sequence
Str(s) == IF s = <<>> THEN "" ELSE Head(s) \o Str(Tail(s))

RECURSIVE Split(_)
\* str.split("|")
Split(s) ==
    IF \A k \in 1..Len(s) : s[k] # Sep
    THEN <<s>>
    ELSE LET k == CHOOSE j \in 1..Len(s) :
                      s[j] = Sep /\ \A h \in 1..(j-1) : s[h] # Sep
         IN  <<SubSeq(s, 1, k-1)>> \o Split(SubSeq(s, k+1, Len(s)))

\* the first component instead of the last
BaseNameFirst(id) == Str(Split(id)[1])

\* main_curve.split("|")[-1]
BaseName(id) == Str(Split(id)[Len(Split(id))])

---------------------------------------------------------------------------
(* The host scene graph *)

NoGeom == [kind |-> "none", of |-> <<>>, d |-> 0]

Node(n, ty, p, t, g) ==
    [name |-> n, type |-> ty, parent |-> p, t |-> t, geom |-> g]

Origin == <<0, 0, 0>>

\* scene before the tool runs: a curve c under group g, a mesh m, an empty
\* transform e
InitialScene ==
    << Node("g", "transform", 0, Origin, NoGeom),
       Node("c", "transform", 1, Origin, NoGeom),
       Node("cShape", "nurbsCurve", 2, Origin,
            [kind |-> "input", of |-> <<>>, d |-> 0]),
       Node("m", "transform", 0, Origin, NoGeom),
       Node("mShape", "mesh", 4, Origin,
            [kind |-> "mesh", of |-> <<>>, d |-> 0]),
       Node("e", "transform", 0, Origin, NoGeom) >>

RECURSIVE PathNames(_, _)
\* names from the scene root down to node i
PathNames(sc, i) ==
    IF i = 0 THEN <<>> ELSE PathNames(sc, sc[i].parent) \o <<sc[i].name>>

RECURSIVE FullPath(_, _)
\* full DAG path of node i as an identifier
FullPath(sc, i) ==
    IF i = 0 THEN <<>> ELSE FullPath(sc, sc[i].parent) \o <<Sep, sc[i].name>>

\* the path components an identifier names
Components(id) ==
    LET parts == Split(id) IN [k \in 1..Len(parts) |-> Str(parts[k])]

\* do the components denote node i (full path, partial path or short name)
Matches(sc, i, comps) ==
    IF Len(comps) > 1 /\ comps[1] = ""
    THEN PathNames(sc, i) = Tail(comps)
    ELSE /\ comps[Len(comps)] = sc[i].name
         /\ LET path == PathNames(sc, i)
            IN  /\ Len(comps) <= Len(path)
                /\ SubSeq(path, Len(path) - Len(comps) + 1, Len(path)) = comps

\* cmds.objExists
objExists(sc, id) ==
    LET comps == Components(id) IN \E i \in 1..Len(sc) : Matches(sc, i, comps)

\* the node an existing identifier denotes
Resolve(sc, id) ==
    LET comps == Components(id)
    IN  CHOOSE i \in 1..Len(sc) : Matches(sc, i, comps)

\* cmds.nodeType
nodeType(sc, id) == sc[Resolve(sc, id)].type

IsShapeType(ty) == ty \in {"nurbsCurve", "mesh", "nurbsSurface"}

RECURSIVE ShapeIds(_, _, _)
\* the shape children of node i among the nodes k, k+1, ...
ShapeIds(sc, i, k) ==
    IF k > Len(sc) THEN <<>>
    ELSE (IF sc[k].parent = i /\ IsShapeType(sc[k].type)
          THEN <<k>> ELSE <<>>) \o ShapeIds(sc, i, k + 1)

\* cmds.listRelatives(curve, shapes=True, fullPath=True) or []
listShapes(sc, id) ==
    LET ids == ShapeIds(sc, Resolve(sc, id), 1)
    IN  [k \in 1..Len(ids) |-> FullPath(sc, ids[k])]

\* cmds.listRelatives(node, parent=True, fullPath=True)
listParents(sc, id) ==
    LET p == sc[Resolve(sc, id)].parent
    IN  IF p = 0 THEN <<>> ELSE <<FullPath(sc, p)>>

\* a name no node of the scene carries, derived from the requested one
RECURSIVE UniqueName(_, _)
UniqueName(sc, n) ==
    IF \E i \in 1..Len(sc) : sc[i].name = n
    THEN UniqueName(sc, n \o "1") ELSE n

---------------------------------------------------------------------------
(* Geometry Adapter *)

\* _as_transform: node is a list of identifiers
_as_transform(sc, nodelist) ==
    LET node == nodelist[1]
    IN  IF nodeType(sc, node) = "nurbsCurve" /\ listParents(sc, node) # <<>>
        THEN listParents(sc, node)[1]
        ELSE node

\* _curve_shape
_curve_shape(sc, curve) ==
    LET shapes == listShapes(sc, curve)
    IN  IF shapes # <<>> THEN shapes[1] ELSE curve

---------------------------------------------------------------------------
(* Host commands that change the scene: the scene after, and the value     *)
(* the command returns                                                     *)

\* cmds.offsetCurve(shape, distance=d, ch=False, ...): a new curve transform
\* at the scene root with one curve shape
offsetCurveScene(sc, shape, d) ==
    LET n == UniqueName(sc, "offsetNurbsCurve1")
    IN  sc \o << Node(n, "transform", 0, Origin, NoGeom),
                 Node(UniqueName(sc, n \o "Shape"), "nurbsCurve", Len(sc) + 1,
                      Origin,
                      [kind |-> "offset", of |-> <<Resolve(sc, shape)>>,
                       d |-> d]) >>

offsetCurveResult(sc, shape, d) == << <<UniqueName(sc, "offsetNurbsCurve1")>> >>

\* cmds.duplicate(curve, rr=True): a copy of the transform, with its
\* translation, next to the original, and copies of its shapes below it
duplicateScene(sc, curve) ==
    LET i   == Resolve(sc, curve)
        n   == UniqueName(sc, sc[i].name \o "1")
        ids == ShapeIds(sc, i, 1)
    IN  sc \o << Node(n, "transform", sc[i].parent, sc[i].t, NoGeom) >>
           \o [k \in 1..Len(ids) |->
                  Node(UniqueName(sc, n \o "Shape"), sc[ids[k]].type,
                       Len(sc) + 1, sc[ids[k]].t, sc[ids[k]].geom)]

duplicateResult(sc, curve) ==
    << UniqueName(sc, sc[Resolve(sc, curve)].name \o "1") >>

\* the name cmds.rename gives the node
renameResult(sc, id, name) ==
    IF sc[Resolve(sc, id)].name = name THEN name ELSE UniqueName(sc, name)

\* cmds.rename(node, name)
renameScene(sc, id, name) ==
    [sc EXCEPT ![Resolve(sc, id)].name = renameResult(sc, id, name)]

\* cmds.move(x, y, z, node, relative=True, objectSpace=True)
moveScene(sc, v, id) ==
    LET i == Resolve(sc, id)
    IN  [sc EXCEPT ![i].t = <<sc[i].t[1] + v[1], sc[i].t[2] + v[2],
                              sc[i].t[3] + v[3]>>]

\* cmds.loft(*curves, ch=False, ar=True, d=1, u=True, name=name): a new
\* surface transform at the scene root with one surface shape
loftScene(sc, curves, name) ==
    LET n == UniqueName(sc, name)
    IN  sc \o << Node(n, "transform", 0, Origin, NoGeom),
                 Node(UniqueName(sc, n \o "Shape"), "nurbsSurface",
                      Len(sc) + 1, Origin,
                      [kind |-> "loft",
                       of |-> [k \in 1..Len(curves) |-> Resolve(sc, curves[k])],
                       d |-> 1]) >>

loftResult(sc, curves, name) == << <<UniqueName(sc, name)>> >>

\* cmds.group(members, name=name): a new transform at the scene root, the
\* members moved below it
groupScene(sc, members, name) ==
    LET ms == {Resolve(sc, members[k]) : k \in 1..Len(members)}
    IN  [i \in 1..Len(sc) |->
            IF i \in ms THEN [sc[i] EXCEPT !.parent = Len(sc) + 1] ELSE sc[i]]
        \o << Node(UniqueName(sc, name), "transform", 0, Origin, NoGeom) >>

groupResult(sc, members, name) == UniqueName(sc, name)

---------------------------------------------------------------------------
(* build_nurbs_road: the statements after the precondition checks, in      *)
(* program order.  src names the locals passed as sources, out the local   *)
(* assigned, ext the locals the statement that follows appends to list.    *)

Offset(src, sign, param, suffix, out, ext) ==
    [kind |-> "offset", src |-> <<src>>, sign |-> sign, param |-> param,
     suffix |-> suffix, out |-> out, list |-> "curves", ext |-> ext]

Dup(src, param, suffix, out, ext) ==
    [kind |-> "dup", src |-> <<src>>, sign |-> 1, param |-> param,
     suffix |-> suffix, out |-> out, list |-> "curves", ext |-> ext]

Loft(a, b, suffix, out, ext) ==
    [kind |-> "loft", src |-> <<a, b>>, sign |-> 1, param |-> "",
     suffix |-> suffix, out |-> out, list |-> "surfaces", ext |-> ext]

Group(src, suffix, out) ==
    [kind |-> "group", src |-> src, sign |-> 1, param |-> "",
     suffix |-> suffix, out |-> out, list |-> "", ext |-> <<>>]

StepsTable ==
    << Offset("main_curve", 1, "road_offset", "_road_L_crv", "road_left", <<>>),
       Offset("main_curve", 0 - 1, "road_offset", "_road_R_crv", "road_right",
              <<"road_left", "road_right">>),
       Loft("road_left", "road_right", "_road_srf", "road_surface",
            <<"road_surface">>),
       Offset("road_left", 1, "drain_offset", "_drain_L_crv", "drain_left", <<>>),
       Offset("road_right", 0 - 1, "drain_offset", "_drain_R_crv", "drain_right",
              <<"drain_left", "drain_right">>),
       Loft("road_left", "drain_left", "_drain_L_srf", "left_drain_surface", <<>>),
       Loft("road_right", "drain_right", "_drain_R_srf", "right_drain_surface",
            <<"left_drain_surface", "right_drain_surface">>),
       Offset("drain_left", 1, "curb_offset", "_curbBase_L_crv",
              "curb_base_left", <<>>),
       Offset("drain_right", 0 - 1, "curb_offset", "_curbBase_R_crv",
              "curb_base_right", <<"curb_base_left", "curb_base_right">>),
       Dup("curb_base_left", "curb_height", "_curbTop_L_crv", "curb_top_left",
           <<>>),
       Dup("curb_base_right", "curb_height", "_curbTop_R_crv", "curb_top_right",
           <<"curb_top_left", "curb_top_right">>),
       Loft("curb_base_left", "curb_top_left", "_curbWall_L_srf",
            "curb_wall_left", <<>>),
       Loft("curb_base_right", "curb_top_right", "_curbWall_R_srf",
            "curb_wall_right", <<"curb_wall_left", "curb_wall_right">>),
       Loft("drain_left", "curb_base_left", "_drainCap_L_srf",
            "drain_cap_left", <<>>),
       Loft("drain_right", "curb_base_right", "_drainCap_R_srf",
            "drain_cap_right", <<"drain_cap_left", "drain_cap_right">>),
       Offset("curb_top_left", 1, "sidewalk_offset", "_sidewalk_L_crv",
              "sidewalk_left", <<>>),
       Offset("curb_top_right", 0 - 1, "sidewalk_offset", "_sidewalk_R_crv",
              "sidewalk_right", <<"sidewalk_left", "sidewalk_right">>),
       Loft("curb_top_left", "sidewalk_left", "_sidewalk_L_srf",
            "sidewalk_surface_left", <<>>),
       Loft("curb_top_right", "sidewalk_right", "_sidewalk_R_srf",
            "sidewalk_surface_right",
            <<"sidewalk_surface_left", "sidewalk_surface_right">>),
       Offset("sidewalk_left", 1, "sidewalk_curb_offset", "_sidewalkCurb_L_crv",
              "sidewalk_curb_left", <<>>),
       Offset("sidewalk_right", 0 - 1, "sidewalk_curb_offset",
              "_sidewalkCurb_R_crv", "sidewalk_curb_right",
              <<"sidewalk_curb_left", "sidewalk_curb_right">>),
       Loft("sidewalk_left", "sidewalk_curb_left", "_sidewalkBorder_L_srf",
            "sidewalk_border_left", <<>>),
       Loft("sidewalk_right", "sidewalk_curb_right", "_sidewalkBorder_R_srf",
            "sidewalk_border_right",
            <<"sidewalk_border_left", "sidewalk_border_right">>),
       Group(<<"created_curves">>, "_roadCurves_GRP", "curves_grp"),
       Group(<<"created_surfaces">>, "_roadSurfaces_GRP", "surfaces_grp"),
       Group(<<"curves_grp", "surfaces_grp">>, "_roadSystem_GRP", "master_grp") >>

\* the right drain curve requested under the left one's name
StepsSameName == [StepsTable EXCEPT ![5].suffix = "_drain_L_crv"]

\* the right curb top never appended to created_curves
StepsForgetExtend == [StepsTable EXCEPT ![11].ext = <<"curb_top_left">>]

\* the left sidewalk offset from the curb base instead of the curb top
StepsSidewalkFromBase == [StepsTable EXCEPT ![16].src = <<"curb_base_left">>]

Steps == StepsTable

\* the locals of build_nurbs_road that hold node names
Locals == {Steps[k].out : k \in 1..Len(Steps)}

NoExc == [type |-> "", msg |-> ""]

NoResult == [curves |-> <<>>, surfaces |-> <<>>, groups |-> <<>>]

NoParameters == Uniform(0)

Call(op, args, d, name) == [op |-> op, args |-> args, d |-> d, name |-> name]

\* the identifier a source of a statement evaluates to
Arg(v) == IF v = "main_curve" THEN main_curve ELSE <<env[v]>>

\* the list of identifiers a statement passes to the host
Args(step) ==
    IF step.src = <<"created_curves">>
    THEN [k \in 1..Len(created_curves) |-> <<created_curves[k]>>]
    ELSE IF step.src = <<"created_surfaces">>
    THEN [k \in 1..Len(created_surfaces) |-> <<created_surfaces[k]>>]
    ELSE [k \in 1..Len(step.src) |-> Arg(step.src[k])]

\* f"{base_name}<suffix>"
NameOf(step) == BaseName(main_curve) \o step.suffix

\* the sign of the right side dropped
DistanceUnsigned(step) == params[step.param]

\* the signed number a statement passes to the host
Distance(step) == step.sign * params[step.param]

\* the existence check left out: the shape query fails in the host
ValidateNoExistenceCheck(sc, id) ==
    IF ~ objExists(sc, id)
    THEN [exc |-> [type |-> "ValueError", msg |-> "No object matches name"],
          queries |-> <<"listRelatives">>]
    ELSE IF nodeType(sc, _curve_shape(sc, id)) # "nurbsCurve"
    THEN [exc |-> [type |-> "ValueError",
                   msg |-> "The selected object must be a NURBS curve."],
          queries |-> <<"listRelatives", "nodeType">>]
    ELSE [exc |-> NoExc, queries |-> <<"listRelatives", "nodeType">>]

\* the type check made before the existence check
ValidateTypeFirst(sc, id) ==
    IF ~ objExists(sc, id)
    THEN [exc |-> [type |-> "ValueError", msg |-> "No object matches name"],
          queries |-> <<"listRelatives">>]
    ELSE IF nodeType(sc, _curve_shape(sc, id)) # "nurbsCurve"
    THEN [exc |-> [type |-> "ValueError",
                   msg |-> "The selected object must be a NURBS curve."],
          queries |-> <<"listRelatives", "nodeType">>]
    ELSE [exc |-> NoExc,
          queries |-> <<"listRelatives", "nodeType", "objExists">>]

\* the precondition checks of build_nurbs_road: the exception raised (NoExc
\* if none) and the host queries made
Validate(sc, id) ==
    IF ~ objExists(sc, id)
    THEN [exc |-> [type |-> "ValueError",
                   msg |-> "Selected curve does not exist."],
          queries |-> <<"objExists">>]
    ELSE IF nodeType(sc, _curve_shape(sc, id)) # "nurbsCurve"
    THEN [exc |-> [type |-> "ValueError",
                   msg |-> "The selected object must be a NURBS curve."],
          queries |-> <<"objExists", "listRelatives", "nodeType">>]
    ELSE [exc |-> NoExc,
          queries |-> <<"objExists", "listRelatives", "nodeType">>]

---------------------------------------------------------------------------
(* Actions *)

Init ==
    /\ nodes = InitialScene
    /\ pc = "idle"
    /\ caller = "none"
    /\ main_curve = <<>>
    /\ params = NoParameters
    /\ ip = 0
    /\ sub = 0
    /\ tmp = ""
    /\ env = [v \in Locals |-> ""]
    /\ created_curves = <<>>
    /\ created_surfaces = <<>>
    /\ result = NoResult
    /\ exc = NoExc
    /\ calls = <<>>
    /\ selection = <<>>
    /\ escaped = FALSE

\* build_nurbs_road, entry up to the first statement after the checks
Enter(id, p, who) ==
    LET v == Validate(nodes, id)
    IN  /\ caller' = who
        /\ main_curve' = id
        /\ params' = p
        /\ calls' = calls \o [k \in 1..Len(v.queries) |->
                                 Call(v.queries[k], <<id>>, 0, "")]
        /\ exc' = v.exc
        /\ pc' = IF v.exc = NoExc THEN "build" ELSE "raised"
        /\ ip' = IF v.exc = NoExc THEN 1 ELSE 0
        /\ UNCHANGED <<nodes, sub, tmp, env, created_curves, created_surfaces,
                       result, escaped>>

\* a script calls build_nurbs_road(id, p)
CallBuild ==
    /\ pc = "idle"
    /\ \E id \in InputIds, p \in RoadParameters : Enter(id, p, "direct")
    /\ UNCHANGED selection

\* RoadBuilderUI._on_build_pressed up to the call of build_nurbs_road
OnBuildPressed ==
    /\ pc = "idle"
    /\ \E sel \in Selections, p \in RoadParameters :
          /\ selection' = sel
          /\ IF sel = <<>>
             THEN /\ calls' = Append(calls, Call("warning", <<>>, 0,
                       "Please select a NURBS curve to use as the road centerline."))
                  /\ pc' = "ui_done"
                  /\ caller' = "ui"
                  /\ params' = p
                  /\ UNCHANGED <<nodes, main_curve, ip, sub, tmp, env,
                                 created_curves, created_surfaces, result, exc,
                                 escaped>>
             ELSE Enter(sel[1], p, "ui")

\* the statement at ip is complete: bind its result, run the extend/append
\* that follows it, go to the next statement
Finish(value) ==
    LET step == Steps[ip]
        e    == [env EXCEPT ![step.out] = value]
        new  == [k \in 1..Len(step.ext) |-> e[step.ext[k]]]
    IN  /\ env' = e
        /\ created_curves' =
              IF step.list = "curves" THEN created_curves \o new
              ELSE created_curves
        /\ created_surfaces' =
              IF step.list = "surfaces" THEN created_surfaces \o new
              ELSE created_surfaces
        /\ ip' = ip + 1
        /\ sub' = 0
        /\ tmp' = ""

Running(kind, s) ==
    /\ pc = "build"
    /\ ip <= Len(Steps)
    /\ Steps[ip].kind = kind
    /\ sub = s

\* _offset_curve: cmds.offsetCurve on the source's shape, then _as_transform
OffsetCurve ==
    /\ Running("offset", 0)
    /\ LET step  == Steps[ip]
           curve == Arg(step.src[1])
       IN  /\ objExists(nodes, curve)
           /\ LET shape == _curve_shape(nodes, curve)
                  sc    == offsetCurveScene(nodes, shape, Distance(step))
                  ret   == offsetCurveResult(nodes, shape, Distance(step))
              IN  /\ nodes' = sc
                  /\ tmp' = Str(_as_transform(sc, ret))
                  /\ calls' = Append(calls, Call("offsetCurve", <<curve>>,
                                                 Distance(step), ""))
    /\ sub' = 1
    /\ UNCHANGED <<pc, caller, main_curve, params, ip, env, created_curves,
                   created_surfaces, result, exc, selection, escaped>>

\* _offset_curve: return cmds.rename(offset_transform, name)
RenameOffset ==
    /\ Running("offset", 1)
    /\ objExists(nodes, <<tmp>>)
    /\ nodes' = renameScene(nodes, <<tmp>>, NameOf(Steps[ip]))
    /\ calls' = Append(calls, Call("rename", << <<tmp>> >>, 0, NameOf(Steps[ip])))
    /\ Finish(renameResult(nodes, <<tmp>>, NameOf(Steps[ip])))
    /\ UNCHANGED <<pc, caller, main_curve, params, result, exc, selection,
                   escaped>>

\* _duplicate_curve: dup = cmds.duplicate(curve, rr=True)[0]
Duplicate ==
    /\ Running("dup", 0)
    /\ LET curve == Arg(Steps[ip].src[1])
       IN  /\ objExists(nodes, curve)
           /\ nodes' = duplicateScene(nodes, curve)
           /\ tmp' = duplicateResult(nodes, curve)[1]
           /\ calls' = Append(calls, Call("duplicate", <<curve>>, 0, ""))
    /\ sub' = 1
    /\ UNCHANGED <<pc, caller, main_curve, params, ip, env, created_curves,
                   created_surfaces, result, exc, selection, escaped>>

\* only upward translations applied
MovesIfPositive(translate_y) == translate_y > 0

\* whether _duplicate_curve moves the duplicate: `if translate_y:`
Moves(translate_y) == translate_y # 0

\* _duplicate_curve: dup = cmds.rename(dup, name), and the return when the
\* duplicate is not moved
RenameDuplicate ==
    /\ Running("dup", 1)
    /\ objExists(nodes, <<tmp>>)
    /\ nodes' = renameScene(nodes, <<tmp>>, NameOf(Steps[ip]))
    /\ calls' = Append(calls, Call("rename", << <<tmp>> >>, 0, NameOf(Steps[ip])))
    /\ IF Moves(Distance(Steps[ip]))
       THEN /\ tmp' = renameResult(nodes, <<tmp>>, NameOf(Steps[ip]))
            /\ sub' = 2
            /\ UNCHANGED <<ip, env, created_curves, created_surfaces>>
       ELSE Finish(renameResult(nodes, <<tmp>>, NameOf(Steps[ip])))
    /\ UNCHANGED <<pc, caller, main_curve, params, result, exc, selection,
                   escaped>>

\* _duplicate_curve: cmds.move(0.0, translate_y, 0.0, dup, relative=True, ...)
Move ==
    /\ Running("dup", 2)
    /\ objExists(nodes, <<tmp>>)
    /\ nodes' = moveScene(nodes, <<0, Distance(Steps[ip]), 0>>, <<tmp>>)
    /\ calls' = Append(calls, Call("move", << <<tmp>> >>, Distance(Steps[ip]), ""))
    /\ Finish(tmp)
    /\ UNCHANGED <<pc, caller, main_curve, params, result, exc, selection,
                   escaped>>

\* _loft_surface
LoftSurface ==
    /\ Running("loft", 0)
    /\ LET step == Steps[ip]
           cs   == Args(step)
       IN  /\ \A k \in 1..Len(cs) : objExists(nodes, cs[k])
           /\ LET sc == loftScene(nodes, cs, NameOf(step))
              IN  /\ nodes' = sc
                  /\ Finish(Str(_as_transform(sc,
                                   loftResult(nodes, cs, NameOf(step)))))
           /\ calls' = Append(calls, Call("loft", cs, 1, NameOf(step)))
    /\ UNCHANGED <<pc, caller, main_curve, params, result, exc, selection,
                   escaped>>

\* cmds.group(..., name=...)
GroupNodes ==
    /\ Running("group", 0)
    /\ LET step == Steps[ip]
           ms   == Args(step)
       IN  /\ \A k \in 1..Len(ms) : objExists(nodes, ms[k])
           /\ nodes' = groupScene(nodes, ms, NameOf(step))
           /\ Finish(groupResult(nodes, ms, NameOf(step)))
           /\ calls' = Append(calls, Call("group", ms, 0, NameOf(step)))
    /\ UNCHANGED <<pc, caller, main_curve, params, result, exc, selection,
                   escaped>>

\* the return statement of build_nurbs_road
Return ==
    /\ pc = "build"
    /\ ip = Len(Steps) + 1
    /\ result' = [curves |-> created_curves, surfaces |-> created_surfaces,
                  groups |-> <<env["curves_grp"], env["surfaces_grp"],
                               env["master_grp"]>>]
    /\ pc' = "returned"
    /\ UNCHANGED <<nodes, caller, main_curve, params, ip, sub, tmp, env,
                   created_curves, created_surfaces, exc, calls, selection,
                   escaped>>

\* the geometry built so far removed when a host call fails
HostFailureRollback ==
    /\ pc = "build"
    /\ ip <= Len(Steps)
    /\ \E ty \in HostErrorTypes : exc' = [type |-> ty, msg |-> "host"]
    /\ pc' = "raised"
    /\ nodes' = InitialScene
    /\ UNCHANGED <<caller, main_curve, params, ip, sub, tmp, env,
                   created_curves, created_surfaces, result, calls, selection,
                   escaped>>

\* the host call the program is about to make raises instead of returning:
\* nothing catches it inside build_nurbs_road
HostFailure ==
    /\ pc = "build"
    /\ ip <= Len(Steps)
    /\ \E ty \in HostErrorTypes : exc' = [type |-> ty, msg |-> "host"]
    /\ pc' = "raised"
    /\ UNCHANGED <<nodes, caller, main_curve, params, ip, sub, tmp, env,
                   created_curves, created_surfaces, result, calls, selection,
                   escaped>>

\* _on_build_pressed: `except ValueError as exc: cmds.warning(str(exc))`;
\* any other exception leaves the callback
OnBuildExcept ==
    /\ pc = "raised"
    /\ caller = "ui"
    /\ IF exc.type = "ValueError"
       THEN /\ calls' = Append(calls, Call("warning", <<>>, 0, exc.msg))
            /\ pc' = "ui_done"
            /\ UNCHANGED escaped
       ELSE /\ escaped' = TRUE
            /\ pc' = "ui_escaped"
            /\ UNCHANGED calls
    /\ UNCHANGED <<nodes, caller, main_curve, params, ip, sub, tmp, env,
                   created_curves, created_surfaces, result, exc, selection>>

\* the first returned group selected instead of the last
SelectFirstGroup ==
    /\ pc = "returned"
    /\ caller = "ui"
    /\ calls' = Append(calls, Call("select", << <<result.groups[1]>> >>, 0, ""))
    /\ pc' = "ui_selected"
    /\ UNCHANGED <<nodes, caller, main_curve, params, ip, sub, tmp, env,
                   created_curves, created_surfaces, result, exc, selection,
                   escaped>>

\* _on_build_pressed: cmds.select(result["groups"][-1])
SelectMaster ==
    /\ pc = "returned"
    /\ caller = "ui"
    /\ calls' = Append(calls, Call("select",
                    << <<result.groups[Len(result.groups)]>> >>, 0, ""))
    /\ pc' = "ui_selected"
    /\ UNCHANGED <<nodes, caller, main_curve, params, ip, sub, tmp, env,
                   created_curves, created_surfaces, result, exc, selection,
                   escaped>>

\* _on_build_pressed: cmds.inViewMessage(statusMessage="Road system created.")
Notify ==
    /\ pc = "ui_selected"
    /\ calls' = Append(calls, Call("inViewMessage", <<>>, 0,
                                   "Road system created."))
    /\ pc' = "ui_done"
    /\ UNCHANGED <<nodes, caller, main_curve, params, ip, sub, tmp, env,
                   created_curves, created_surfaces, result, exc, selection,
                   escaped>>

Next ==
    \/ CallBuild
    \/ OnBuildPressed
    \/ OffsetCurve
    \/ RenameOffset
    \/ Duplicate
    \/ RenameDuplicate
    \/ Move
    \/ LoftSurface
    \/ GroupNodes
    \/ Return
    \/ HostFailure
    \/ OnBuildExcept
    \/ SelectMaster
    \/ Notify

Spec == Init /\ [][Next]_vars

---------------------------------------------------------------------------
(* Vocabulary of the properties *)

\* the host calls of a given kind, in the order made
CallsOf(ops) == SelectSeq(calls, LAMBDA c : c.op \in ops)

MutatingOps == {"offsetCurve", "duplicate", "rename", "move", "loft", "group"}

\* build_nurbs_road has been entered
BuildCalled == caller = "direct" \/ (caller = "ui" /\ selection # <<>>)

\* build_nurbs_road has returned a value
BuildReturned == result # NoResult

\* the node carrying name n (0 if none)
NodeNamed(n) ==
    LET is == {i \in 1..Len(nodes) : nodes[i].name = n}
    IN  IF is = {} THEN 0 ELSE CHOOSE i \in is : TRUE

\* the children of node i
Children(i) == {k \in 1..Len(nodes) : nodes[k].parent = i}

\* the short name of the centerline
Base ==
    LET k == CHOOSE j \in 0..Len(main_curve) :
                /\ j = 0 \/ main_curve[j] = Sep
                /\ \A h \in (j+1)..Len(main_curve) : main_curve[h] # Sep
    IN  Str(SubSeq(main_curve, k + 1, Len(main_curve)))

---------------------------------------------------------------------------
(* C1 as stated: a build in which no host call fails returns exactly 12    *)
(* curves, 10 surfaces and 3 groups, and the 25 names it requested for     *)
(* them are pairwise distinct, whatever the parameter values.              *)

RequestedNames == CallsOf({"rename", "loft", "group"})

Distinct(seq) ==
    \A i, j \in 1..Len(seq) : i # j => seq[i].name # seq[j].name

C1_Original ==
    BuildReturned =>
        /\ Len(result.curves) = 12
        /\ Len(result.surfaces) = 10
        /\ Len(result.groups) = 3
        /\ Len(RequestedNames) = 25
        /\ Distinct(RequestedNames)

(* C1 as amended: such a build returns exactly 12 curves, 11 surfaces (the *)
(* road surface and five per side) and 3 groups, and the 26 names it       *)
(* requested for them are pairwise distinct.                               *)
C1_Counts ==
    BuildReturned =>
        /\ Len(result.curves) = 12
        /\ Len(result.surfaces) = 11
        /\ Len(result.groups) = 3
        /\ Len(RequestedNames) = 26
        /\ Distinct(RequestedNames)

C1_Witness ==
    /\ pc = "returned"
    /\ params.curb_height < 0
    /\ params.road_offset = 0

---------------------------------------------------------------------------
(* C5 as stated: after a successful build the master group has exactly    *)
(* two children, the curves group and the surfaces group; the curves group *)
(* holds exactly the 12 returned curves, the surfaces group exactly the 10 *)
(* returned surfaces, and no created curve or surface lies outside its     *)
(* group.                                                                  *)

Created == (Len(InitialScene) + 1) .. Len(nodes)

\* the group structure, for a given number of curves and surfaces
Grouped(nc, ns) ==
    LET cg == NodeNamed(result.groups[1])
        sg == NodeNamed(result.groups[2])
        mg == NodeNamed(result.groups[3])
        cs == {NodeNamed(result.curves[k]) : k \in 1..Len(result.curves)}
        ss == {NodeNamed(result.surfaces[k]) : k \in 1..Len(result.surfaces)}
    IN  /\ 0 \notin {cg, sg, mg} \cup cs \cup ss
        /\ Children(mg) = {cg, sg}
        /\ cg # sg
        /\ Children(cg) = cs
        /\ Cardinality(cs) = nc
        /\ Children(sg) = ss
        /\ Cardinality(ss) = ns
        /\ \A i \in Created :
              /\ nodes[i].type = "nurbsCurve" => nodes[i].parent \in cs
              /\ nodes[i].type = "nurbsSurface" => nodes[i].parent \in ss

C5_Original == BuildReturned => Grouped(12, 10)

(* C5 as amended: the same, the surfaces group holding exactly the 11      *)
(* returned surfaces.                                                      *)
C5_Groups == BuildReturned => Grouped(12, 11)

C5_Witness ==
    /\ pc = "returned"
    /\ caller = "direct"
    /\ Cardinality(Children(NodeNamed(env["master_grp"]))) = 2

---------------------------------------------------------------------------
(* C2 as stated: a call with an identifier that does not exist raises the  *)
(* missing-input error, whose kind differs from the kind raised for a      *)
(* wrong object type, and leaves the scene as it was, no offset,           *)
(* duplicate, loft, rename or group call being made.                       *)

MissingMessage == "Selected curve does not exist."

WrongTypeMessage == "The selected object must be a NURBS curve."

\* the exception class build_nurbs_road raises for an object of wrong type
WrongTypeKind == Validate(InitialScene, <<"m">>).exc.type

SceneUntouched == nodes = InitialScene /\ CallsOf(MutatingOps) = <<>>

MissingCase == BuildCalled /\ ~ objExists(nodes, main_curve)

C2_Original ==
    MissingCase =>
        /\ exc.msg = MissingMessage
        /\ exc.type # WrongTypeKind
        /\ result = NoResult
        /\ SceneUntouched

(* C2 as amended: such a call raises a ValueError with the message         *)
(* "Selected curve does not exist."; this is the same error kind as the    *)
(* one raised for a wrong object type, told apart by its message only; the *)
(* scene is left as it was and no offset, duplicate, loft, rename or group *)
(* call is made.                                                           *)
C2_Missing ==
    MissingCase =>
        /\ exc = [type |-> "ValueError", msg |-> MissingMessage]
        /\ exc.type = WrongTypeKind
        /\ exc.msg # WrongTypeMessage
        /\ result = NoResult
        /\ SceneUntouched

C2_Witness == pc = "raised" /\ caller = "direct" /\ main_curve = <<"x">>

---------------------------------------------------------------------------
(* C3: a call with an identifier that exists but whose shape (first child  *)
(* shape, or the node itself if it has none) is not a NURBS curve raises   *)
(* the wrong-type error and leaves the scene as it was; the existence      *)
(* check is made before the type check.                                    *)

\* the node whose type is checked: first child shape, or the node itself
CheckedNode ==
    LET i  == Resolve(nodes, main_curve)
        sh == {k \in Children(i) : IsShapeType(nodes[k].type)}
    IN  IF sh = {} THEN i ELSE CHOOSE k \in sh : \A h \in sh : k <= h

WrongTypeCase ==
    /\ BuildCalled
    /\ objExists(nodes, main_curve)
    /\ nodes[CheckedNode].type # "nurbsCurve"

Queries == CallsOf({"objExists", "listRelatives", "nodeType"})

C3_WrongType ==
    /\ WrongTypeCase =>
          /\ exc = [type |-> "ValueError", msg |-> WrongTypeMessage]
          /\ result = NoResult
          /\ SceneUntouched
    /\ BuildCalled =>
          /\ Queries # <<>>
          /\ Queries[1].op = "objExists"
          /\ calls[1] = Queries[1]
          /\ \A k \in 1..Len(calls) : calls[k].op = "objExists" => k = 1

C3_Witness == pc = "raised" /\ main_curve = <<"e">> /\ Len(Queries) = 3

---------------------------------------------------------------------------
(* C4 as stated: when the build action is triggered no exception escapes   *)
(* to the host in any outcome; with an empty selection it warns and never  *)
(* calls build_nurbs_road; when build_nurbs_road rejects the first         *)
(* selected object it warns, selects nothing and shows no notification;    *)
(* only when build_nurbs_road succeeds does it select the master group     *)
(* (the last returned group) and then show the notification.               *)

Last(seq) == seq[Len(seq)]

Selects == CallsOf({"select"})

Notices == CallsOf({"inViewMessage"})

C4_Outcomes ==
    caller = "ui" =>
        /\ selection = <<>> =>
              /\ pc = "ui_done"
              /\ Len(calls) = 1
              /\ calls[1].op = "warning"
        /\ (selection # <<>> /\ exc.type = "ValueError" /\ pc # "raised") =>
              /\ pc = "ui_done"
              /\ Last(calls).op = "warning"
              /\ Last(calls).name = exc.msg
              /\ Selects = <<>>
              /\ Notices = <<>>
        /\ Selects # <<>> =>
              /\ BuildReturned
              /\ Len(Selects) = 1
              /\ Selects[1].args = << <<result.groups[3]>> >>
              /\ Children(NodeNamed(result.groups[3]))
                    = {NodeNamed(result.groups[1]), NodeNamed(result.groups[2])}
        /\ Notices # <<>> =>
              /\ Len(Notices) = 1
              /\ Last(calls).op = "inViewMessage"
              /\ calls[Len(calls) - 1].op = "select"
        /\ (pc = "ui_done" /\ BuildReturned) => Notices # <<>>

C4_Original == C4_Outcomes /\ ~ escaped

(* C4 as amended: the same outcomes, except that an exception does escape  *)
(* to the host when a host call inside build_nurbs_road fails with an      *)
(* error that is not a ValueError: only ValueError is caught (and shown as *)
(* a warning); any other failure leaves the callback, which then selects   *)
(* nothing and shows neither warning nor notification.                     *)
C4_Amended ==
    /\ C4_Outcomes
    /\ exc.type = "ValueError" => ~ escaped
    /\ escaped =>
          /\ caller = "ui"
          /\ pc = "ui_escaped"
          /\ exc.type \notin {"", "ValueError"}
          /\ exc.msg = "host"
          /\ CallsOf({"warning", "select", "inViewMessage"}) = <<>>
    /\ (caller = "ui" /\ pc = "ui_done" /\ exc # NoExc) =>
          exc.type = "ValueError"

C4_Witness == caller = "ui" /\ pc = "ui_done" /\ Notices # <<>>

---------------------------------------------------------------------------
(* C6: when a host call inside build_nurbs_road fails, the failure leaves  *)
(* build_nurbs_road at once, no further host call of the build is made,    *)
(* every node created before stays in the scene and no result is returned. *)

C6_Step ==
    /\ (exc = NoExc /\ exc'.msg = "host") =>
          /\ pc' = "raised"
          /\ nodes' = nodes
          /\ calls' = calls
          /\ result' = NoResult
    /\ exc.msg = "host" =>
          /\ exc' = exc
          /\ nodes' = nodes
          /\ result' = NoResult
          /\ pc' \in {"ui_done", "ui_escaped"}
          /\ SelectSeq(calls', LAMBDA c : c.op \in MutatingOps)
                = CallsOf(MutatingOps)
    /\ Len(nodes') >= Len(nodes)

C6_FailurePropagates == [][C6_Step]_vars

C6_Witness ==
    /\ pc = "raised"
    /\ exc.msg = "host"
    /\ sub = 1
    /\ Len(nodes) > Len(InitialScene) + 2

---------------------------------------------------------------------------
(* C7 as stated: every curve is requested under <base>_<role>_<L|R>_crv    *)
(* and every surface under <base>_<role>_<L|R>_srf, <base> being the text  *)
(* after the last "|" of the identifier; the names depend on the           *)
(* identifier only, never on the parameters.                               *)

CurveRoles ==
    <<"road", "drain", "curbBase", "curbTop", "sidewalk", "sidewalkCurb">>

SurfaceRoles ==
    <<"road", "drain", "curbWall", "drainCap", "sidewalk", "sidewalkBorder">>

Sides == <<"L", "R">>

Range(seq) == {seq[k] : k \in 1..Len(seq)}

Sided(role, side, kind) == Base \o "_" \o role \o "_" \o side \o "_" \o kind

CurveRequests == CallsOf({"rename"})

SurfaceRequests == CallsOf({"loft"})

C7_Original ==
    /\ \A k \in 1..Len(CurveRequests) :
          \E r \in Range(CurveRoles), sd \in Range(Sides) :
              CurveRequests[k].name = Sided(r, sd, "crv")
    /\ \A k \in 1..Len(SurfaceRequests) :
          \E r \in Range(SurfaceRoles), sd \in Range(Sides) :
              SurfaceRequests[k].name = Sided(r, sd, "srf")

(* C7 as amended: the same, except that the road surface, which spans both *)
(* sides, is requested under <base>_road_srf without a side tag.  The k-th *)
(* curve and the k-th surface requested have a role and a side fixed by k  *)
(* alone.                                                                  *)
C7_Names ==
    /\ \A k \in 1..Len(CurveRequests) :
          CurveRequests[k].name
             = Sided(CurveRoles[(k + 1) \div 2], Sides[2 - (k % 2)], "crv")
    /\ \A k \in 1..Len(SurfaceRequests) :
          SurfaceRequests[k].name
             = IF k = 1 THEN Base \o "_road_srf"
               ELSE Sided(SurfaceRoles[(k \div 2) + 1], Sides[1 + (k % 2)], "srf")

C7_Witness ==
    /\ pc = "returned"
    /\ main_curve = <<Sep, "g", Sep, "c">>
    /\ Len(SurfaceRequests) = 11

---------------------------------------------------------------------------
(* C8: the build follows the derivation table: road from the centerline,   *)
(* drain from road, curbBase from drain, curbTop a duplicate of curbBase,  *)
(* sidewalk from curbTop, sidewalkCurb from sidewalk; every surface is     *)
(* lofted from the two curves listed for it; every source exists before    *)
(* the node made from it.                                                  *)

N(role, side) == NodeNamed(Sided(role, side, "crv"))

\* the first shape below node i
ShapeIdOf(i) ==
    LET sh == {k \in 1..Len(nodes) :
                  nodes[k].parent = i /\ IsShapeType(nodes[k].type)}
    IN  CHOOSE k \in sh : \A h \in sh : k <= h

\* the curve shape the centerline identifier stands for
CenterShape ==
    LET i == Resolve(nodes, main_curve)
    IN  IF nodes[i].type = "nurbsCurve" THEN i ELSE ShapeIdOf(i)

OffsetFrom(x, srcShape) ==
    x # 0 => /\ nodes[ShapeIdOf(x)].geom.kind = "offset"
             /\ nodes[ShapeIdOf(x)].geom.of = <<srcShape>>

OffsetFromCurve(x, y) == x # 0 => (y # 0 /\ OffsetFrom(x, ShapeIdOf(y)))

DuplicateOf(x, y) ==
    x # 0 => /\ y # 0
             /\ y < x
             /\ nodes[ShapeIdOf(x)].geom = nodes[ShapeIdOf(y)].geom
             /\ \E k \in 1..Len(calls) :
                   /\ calls[k].op = "duplicate"
                   /\ calls[k].args = << <<nodes[y].name>> >>

LoftOf(name, a, b) ==
    LET x == NodeNamed(name)
    IN  x # 0 => /\ a # 0
                 /\ b # 0
                 /\ nodes[ShapeIdOf(x)].geom
                       = [kind |-> "loft", of |-> <<a, b>>, d |-> 1]

\* the rows of the table for one side
C8_Side(sd) ==
    LET road     == N("road", sd)
        drain    == N("drain", sd)
        curbBase == N("curbBase", sd)
        curbTop  == N("curbTop", sd)
        sidewalk == N("sidewalk", sd)
        outer    == N("sidewalkCurb", sd)
    IN  /\ OffsetFrom(road, CenterShape)
        /\ OffsetFromCurve(drain, road)
        /\ OffsetFromCurve(curbBase, drain)
        /\ DuplicateOf(curbTop, curbBase)
        /\ OffsetFromCurve(sidewalk, curbTop)
        /\ OffsetFromCurve(outer, sidewalk)
        /\ LoftOf(Sided("drain", sd, "srf"), road, drain)
        /\ LoftOf(Sided("curbWall", sd, "srf"), curbBase, curbTop)
        /\ LoftOf(Sided("drainCap", sd, "srf"), drain, curbBase)
        /\ LoftOf(Sided("sidewalk", sd, "srf"), curbTop, sidewalk)
        /\ LoftOf(Sided("sidewalkBorder", sd, "srf"), sidewalk, outer)
        /\ BuildReturned =>
              /\ 0 \notin {road, drain, curbBase, curbTop, sidewalk, outer}
              /\ \A r \in Range(Tail(SurfaceRoles)) :
                    NodeNamed(Sided(r, sd, "srf")) # 0

C8_Derivation ==
    /\ LoftOf(Base \o "_road_srf", N("road", "L"), N("road", "R"))
    /\ \A sd \in Range(Sides) : C8_Side(sd)
    /\ \A i \in Created : \A k \in Range(nodes[i].geom.of) : k < i
    /\ BuildReturned => NodeNamed(Base \o "_road_srf") # 0

C8_Witness ==
    /\ BuildReturned
    /\ N("sidewalk", "L") # 0
    /\ nodes[N("curbTop", "L")].t # nodes[N("curbBase", "L")].t

---------------------------------------------------------------------------
(* C9: at each of the five lateral offset steps the distance given to the  *)
(* host for the right curve is the exact negation of the one given for the *)
(* left curve, which is the parameter itself; the curb-height translation  *)
(* is the one step with the same sign on both sides.                       *)

OffsetParams ==
    <<"road_offset", "drain_offset", "curb_offset", "sidewalk_offset",
      "sidewalk_curb_offset">>

OffsetCalls == CallsOf({"offsetCurve"})

MoveCalls == CallsOf({"move"})

C9_Symmetry ==
    /\ \A k \in 1..Len(OffsetCalls) :
          IF k % 2 = 1
          THEN OffsetCalls[k].d = params[OffsetParams[(k + 1) \div 2]]
          ELSE /\ OffsetCalls[k].d = 0 - OffsetCalls[k - 1].d
               /\ OffsetCalls[k].d = 0 - params[OffsetParams[k \div 2]]
    /\ \A k \in 1..Len(MoveCalls) : MoveCalls[k].d = params.curb_height
    /\ BuildReturned =>
          /\ Len(OffsetCalls) = 10
          /\ params.curb_height # 0 => Len(MoveCalls) = 2

C9_Witness ==
    /\ pc = "returned"
    /\ params.sidewalk_offset = 1
    /\ OffsetCalls[8].d = 0 - 1
    /\ Len(MoveCalls) = 2

---------------------------------------------------------------------------
(* C10: for every curb_height, zero and negative included, curbTop_L/R are *)
(* duplicates of curbBase_L/R that differ from their source only by a      *)
(* relative translation of (0, curb_height, 0); with curb_height = 0 the   *)
(* duplicate is still made and is not moved; curbBase is never moved.      *)

TopOf(top, base) ==
    env[top] # "" =>
        LET x == NodeNamed(env[top])
            y == NodeNamed(env[base])
        IN  /\ x # 0
            /\ y # 0
            /\ x # y
            /\ nodes[ShapeIdOf(x)].geom = nodes[ShapeIdOf(y)].geom
            /\ nodes[ShapeIdOf(x)].type = nodes[ShapeIdOf(y)].type
            /\ nodes[x].t = <<nodes[y].t[1], nodes[y].t[2] + params.curb_height,
                              nodes[y].t[3]>>
            /\ nodes[y].t = Origin

C10_CurbTop ==
    /\ TopOf("curb_top_left", "curb_base_left")
    /\ TopOf("curb_top_right", "curb_base_right")
    /\ params.curb_height = 0 => MoveCalls = <<>>
    /\ \A k \in 1..Len(nodes) :
          nodes[k].t # Origin =>
              nodes[k].name \in {Sided("curbTop", "L", "crv"),
                                 Sided("curbTop", "R", "crv")}

C10_Witness ==
    /\ pc = "returned"
    /\ params.curb_height = 0
    /\ params.curb_offset # 0
    /\ N("curbTop", "R") # 0

====
